---- MODULE Spec2Model ----
(***************************************************************************)
(* A model of export_webots.py, the Blender add-on that writes a scene as  *)
(* a Webots world file.                                                    *)
(*                                                                         *)
(* Names are sequences of one-character strings, so that slugify can be    *)
(* computed character by character; identifiers written to the file are    *)
(* the joined strings.  A line fragment handed to fw is a sequence of      *)
(* tokens: a word, one blank " ", the line terminator "\n", or one of the  *)
(* brackets "{" "}" "[" "]".  Formatted numbers are the token of their     *)
(* format ("%.6f"): their digits never start or end with a bracket.        *)
(* Lengths are fixed-point integers, Unit to the metre.                    *)
(***************************************************************************)
EXTENDS Integers, Sequences, FiniteSets, TLC

VARIABLES
    scene,          \* the host scene: parent links, selection, names, matrices, mesh data
    meshes,         \* bpy.data.meshes: the mesh resources, by host identity
    user_data_file, \* what user_data_path names: "", a missing file, bad JSON, or a table
    pc,             \* position in save / export
    user_data,      \* the override table export runs with
    file,           \* the fragments written so far, each with its indentation
    indentation,    \* fw.indentation
    isLastCharacterACariageReturn,  \* fw.isLastCharacterACariageReturn
    uuid_cache_object, uuid_cache_mesh, uuid_cache_image,
    mesh_tag, image_tag,            \* the resources whose .tag is set; at first, what earlier runs left
    copy_set,       \* the files collected for copying
    path_reference_calls,           \* the images handed to path_reference, in call order
    stack,          \* the export_object calls in progress, innermost last
    file_closed,    \* file.close() has run
    copied,         \* path_reference_copy has run; the set it was given
    result,         \* what save returned
    slug_s, slug_ret,               \* slugify: argument and result
    hier_parent, hier_objects, hier_ret  \* build_hierarchy: parent links, argument, result

vars == << scene, meshes, user_data_file, pc, user_data, file, indentation,
           isLastCharacterACariageReturn, uuid_cache_object, uuid_cache_mesh,
           uuid_cache_image, mesh_tag, image_tag, copy_set, path_reference_calls,
           stack, file_closed, copied, result, slug_s, slug_ret,
           hier_parent, hier_objects, hier_ret >>

(***************************************************************************)
(* Bounds of the model.                                                    *)
(***************************************************************************)
MaxObjects == 2      \* objects of the scene handed to export
MaxLen == 3          \* characters of a name handed to slugify
MaxHierObjects == 3  \* objects of the scene handed to build_hierarchy alone
MaxFaces == 2        \* tessellated faces of a mesh drawn for the face grouping

None == 0            \* Python's None, where a host object or an index is expected

(***************************************************************************)
(* Characters and strings.                                                 *)
(***************************************************************************)
ASCII == << " ", "-", ".", "0", "1", "2", "3", "4", "5", "6", "7", "8", "9",
            "A", "B", "C", "D", "E", "F", "G", "H", "I", "J", "K", "L", "M",
            "N", "O", "P", "Q", "R", "S", "T", "U", "V", "W", "X", "Y", "Z",
            "_",
            "a", "b", "c", "d", "e", "f", "g", "h", "i", "j", "k", "l", "m",
            "n", "o", "p", "q", "r", "s", "t", "u", "v", "w", "x", "y", "z" >>

Ord(c) == CHOOSE i \in 1..Len(ASCII) : ASCII[i] = c

UpperAZ == {ASCII[i] : i \in Ord("A")..Ord("Z")}
LowerAZ == {ASCII[i] : i \in Ord("a")..Ord("z")}
ToUpper == Ord("A") - Ord("a")

\* re.match(r'[A-Z]', c)
IsUpperAZ(c) == c \in UpperAZ

\* str.upper(), one character
UpperChar(c) == IF c \in LowerAZ THEN ASCII[Ord(c) + ToUpper] ELSE c

\* str.upper()
Upper(s) == [k \in 1..Len(s) |-> UpperChar(s[k])]

\* s < t, as Python orders str
RECURSIVE StrLess(_, _)
StrLess(s, t) ==
    IF t = << >> THEN FALSE
    ELSE IF s = << >> THEN TRUE
    ELSE IF Head(s) = Head(t) THEN StrLess(Tail(s), Tail(t))
    ELSE Ord(Head(s)) < Ord(Head(t))

\* the characters of s as one string
RECURSIVE Join(_)
Join(s) == IF s = << >> THEN "" ELSE Head(s) \o Join(Tail(s))

\* s.replace('__', '_'): every non-overlapping '__', left to right
RECURSIVE ReplaceDouble(_)
ReplaceDouble(s) ==
    IF Len(s) < 2 THEN s
    ELSE IF s[1] = "_" /\ s[2] = "_" THEN << "_" >> \o ReplaceDouble(SubSeq(s, 3, Len(s)))
    ELSE << s[1] >> \o ReplaceDouble(Tail(s))

HasDouble(s) == \E k \in 1..(Len(s) - 1) : s[k] = "_" /\ s[k + 1] = "_"

\* while '__' in s: s = s.replace('__', '_')
RECURSIVE CollapseDouble(_)
CollapseDouble(s) == IF HasDouble(s) THEN CollapseDouble(ReplaceDouble(s)) ELSE s

\* slugify(s)
slugify(s) ==
    LET s0 == IF s = << >> THEN << "n", "o", "n", "e" >> ELSE s
        s1 == Upper(s0)
        s2 == [k \in 1..Len(s1) |-> IF IsUpperAZ(s1[k]) THEN s1[k] ELSE "_"]
        s3 == IF ~IsUpperAZ(s2[1]) THEN << "_" >> \o s2 ELSE s2
        s4 == CollapseDouble(s3)
    IN  IF s4[Len(s4)] = "_" THEN SubSeq(s4, 1, Len(s4) - 1) ELSE s4

(***************************************************************************)
(* Numbers.  A matrix is given by what matrix.decompose() and              *)
(* rot.to_axis_angle() return for it: loc, the angle rot[3], sca.          *)
(***************************************************************************)
Unit == 10 ^ 6

sig_fig == 5

\* int(a * 10 ** sig_fig), for the fixed-point a: truncation toward zero
IntOfScaled(a) ==
    IF a >= 0 THEN a \div (Unit \div 10 ^ sig_fig) ELSE -((-a) \div (Unit \div 10 ^ sig_fig))

\* nearly_equal(a, b, sig_fig=5)
nearly_equal(a, b) == a = b \/ IntOfScaled(a) = IntOfScaled(b)

Zero == 0 * Unit
One == 1 * Unit

Matrix(l, a, s) == [loc |-> << l, l, l >>, angle |-> a, sca |-> << s, s, s >>]

\* mathutils.Matrix(): the identity
IdentityMatrix == Matrix(Zero, Zero, One)

(***************************************************************************)
(* bpy_extras.io_utils.unique_name, as export calls it (sep='_',           *)
(* clean_func=slugify, no name_max): the cached name of key, or the slug   *)
(* of name, made unique among the cached names by a three-digit count.     *)
(***************************************************************************)
Digits3(n) == << ASCII[Ord("0") + ((n \div 100) % 10)], ASCII[Ord("0") + ((n \div 10) % 10)],
                 ASCII[Ord("0") + (n % 10)] >>

Values(name_dict) == {name_dict[k] : k \in DOMAIN name_dict}

RECURSIVE UniqueFrom(_, _, _, _)
UniqueFrom(name_new, name_new_orig, name_dict, count) ==
    IF name_new \in Values(name_dict)
    THEN UniqueFrom(name_new_orig \o << "_" >> \o Digits3(count), name_new_orig,
                    name_dict, count + 1)
    ELSE name_new

\* the name unique_name returns
unique_name(key, name, name_dict) ==
    IF key \in DOMAIN name_dict THEN name_dict[key]
    ELSE UniqueFrom(slugify(name), slugify(name), name_dict, 1)

\* the cache unique_name leaves
unique_name_cache(key, name, name_dict) ==
    IF key \in DOMAIN name_dict THEN name_dict
    ELSE [k \in DOMAIN name_dict \cup {key} |->
            IF k = key THEN unique_name(key, name, name_dict) ELSE name_dict[k]]

\* Decorators
COORDS_ == "COORDS_"
OB_ == << "O", "B", "_" >>
ME_ == << "M", "E", "_" >>
IM_ == << "I", "M", "_" >>
GROUP_ == "GROUP_"
_IFS == "_IFS"
_TRANSFORM == "_TRANSFORM"

(***************************************************************************)
(* fw.  The writer state w is [file, indentation, cr]; each entry of file  *)
(* is one fragment: the blanks written before it (pad, in units of two),   *)
(* its tokens, and fw.indentation when fw returned (depth).                *)
(***************************************************************************)
\* the one element of a singleton set; {e(v) : v \in {d}} names the value of d as v
The(S) == CHOOSE r \in S : TRUE

IsSpace(t) == t \in {" ", "\n"}

RECURSIVE LStrip(_)
LStrip(line) == IF line # << >> /\ IsSpace(Head(line)) THEN LStrip(Tail(line)) ELSE line

RECURSIVE RStrip(_)
RStrip(line) ==
    IF line # << >> /\ IsSpace(line[Len(line)])
    THEN RStrip(SubSeq(line, 1, Len(line) - 1)) ELSE line

\* line.strip()
Strip(line) == RStrip(LStrip(line))

\* strippedLine.startswith('}') or strippedLine.startswith(']')
StartsWithClose(strippedLine) ==
    strippedLine # << >> /\ Head(strippedLine) \in {"}", "]"}

\* strippedLine.endswith('{') or strippedLine.endswith('[')
EndsWithOpen(strippedLine) ==
    strippedLine # << >> /\ strippedLine[Len(strippedLine)] \in {"{", "["}

\* fw(line); before is fw.indentation once a closing bracket has been counted
fw(w, line) ==
    LET strippedLine == Strip(line)
        before == IF StartsWithClose(strippedLine) THEN w.indentation - 1 ELSE w.indentation
        after == IF EndsWithOpen(strippedLine) THEN before + 1 ELSE before
    IN  [file |-> Append(w.file, [pad |-> IF w.cr /\ before > 0 THEN before ELSE 0,
                                  text |-> line, depth |-> after]),
         indentation |-> after,
         cr |-> line # << >> /\ line[Len(line)] = "\n"]

\* fw on each of lines in turn, the first half before the second
RECURSIVE FwAll(_, _)
FwAll(w, lines) ==
    IF lines = << >> THEN w
    ELSE IF Len(lines) = 1 THEN fw(w, lines[1])
    ELSE The({ FwAll(written, SubSeq(lines, Len(lines) \div 2 + 1, Len(lines))) :
                 written \in {FwAll(w, SubSeq(lines, 1, Len(lines) \div 2))} })

NoOutput == [file |-> << >>, indentation |-> 0, cr |-> FALSE]

write_header_lines ==
    << << "#VRML_SIM", " ", "R2019a", " ", "utf8", "\n" >>,
       << "WorldInfo", " ", "{", "\n" >>,
       << "basicTimeStep", " ", "8", "\n" >>,
       << "}", "\n" >>,
       << "Viewpoint", " ", "{", "\n" >>,
       << "orientation", " ", "-0.5", " ", "-0.852", " ", "-0.159", " ", "0.71", "\n" >>,
       << "position", " ", "-3.6", " ", "2.0", " ", "5.4", "\n" >>,
       << "}", "\n" >>,
       << "TexturedBackground", " ", "{", "\n" >>,
       << "}", "\n" >>,
       << "TexturedBackgroundLight", " ", "{", "\n" >>,
       << "}", "\n" >> >>

write_header(w) == FwAll(w, write_header_lines)

(***************************************************************************)
(* The state of one export call, threaded through the writers: the fw      *)
(* state, the three identifier caches, the tags, the copy set, and the     *)
(* path_reference calls made.                                              *)
(***************************************************************************)
Emit(x, lines) ==
    The({[x EXCEPT !.file = w.file, !.indentation = w.indentation, !.cr = w.cr] :
            w \in {FwAll([file |-> x.file, indentation |-> x.indentation, cr |-> x.cr],
                         lines)}})

Opt(cond, lines) == IF cond THEN lines ELSE << >>

Quoted(s) == "\"" \o s \o "\""

\* exportPhysics for every override, Robot included
exportPhysics_always(node_data) == TRUE

\* exportPhysics of write_transform_begin
exportPhysics(node_data) == node_data.webotsType # "Robot"

\* exportBoundingObject of write_transform_begin
exportBoundingObject(node_data) == TRUE

\* the elif of write_transform_begin: the transform is the identity, nearly
UselessTransform(matrix) ==
    /\ nearly_equal(matrix.loc[1], Zero) /\ nearly_equal(matrix.loc[2], Zero)
    /\ nearly_equal(matrix.loc[3], Zero) /\ nearly_equal(matrix.angle, Zero)
    /\ nearly_equal(matrix.sca[1], One) /\ nearly_equal(matrix.sca[2], One)
    /\ nearly_equal(matrix.sca[3], One)

hingeJoint_lines(node_data) ==
    << << "jointParameters", " ", "HingeJointParameters", " ", "{", "\n" >>,
       << "anchor", " ", "%.6f", " ", "%.6f", " ", "%.6f", "\n" >>,
       << "axis", " ", node_data.hingeJointParameters.axis, "\n" >>,
       << "}", "\n" >>,
       << "device", " ", "[", "\n" >> >>
    \o Opt("motorName" \in DOMAIN node_data,
           << << "RotationalMotor", " ", "{", "\n" >>,
              << "name", " ", Quoted(node_data.motorName), "\n" >>,
              << "maxTorque", " ", "100000", "\n" >>,
              << "}", "\n" >> >>)
    \o Opt("positionSensorName" \in DOMAIN node_data,
           << << "PositionSensor", " ", "{", "\n" >>,
              << "name", " ", Quoted(node_data.positionSensorName), "\n" >>,
              << "}", "\n" >> >>)
    \o << << "]", "\n" >>,
          << "endPoint", " ", "Solid", " ", "{", "\n" >> >>
    \o Opt("motorName" \in DOMAIN node_data,
           << << "name", " ", Quoted(node_data.motorName), "\n" >> >>)

trs_lines ==
    << << "translation", " ", "%.6f", " ", "%.6f", " ", "%.6f", "\n" >>,
       << "scale", " ", "%.6f", " ", "%.6f", " ", "%.6f", "\n" >>,
       << "rotation", " ", "%.6f", " ", "%.6f", " ", "%.6f", " ", "%.6f", "\n" >> >>

physics_lines ==
    << << "physics", " ", "Physics", " ", "{", "\n" >>,
       << "}", "\n" >> >>

boundingObject_lines ==
    << << "boundingObject", " ", "Transform", " ", "{", "\n" >>,
       << "translation", " ", "%.6f", " ", "%.6f", " ", "%.6f", "\n" >>,
       << "children", " ", "[", "\n" >>,
       << "Box", " ", "{", "\n" >>,
       << "size", " ", "%.6f", " ", "%.6f", " ", "%.6f", "\n" >>,
       << "}", "\n" >>,
       << "]", "\n" >>,
       << "}", "\n" >> >>

children_line == << "children", " ", "[", "\n" >>

\* write_transform_begin(obj, matrix, def_id): what it writes and the pair it returns
write_transform_begin(x, matrix, def_id) ==
    IF def_id \in DOMAIN user_data
    THEN LET node_data == user_data[def_id]
             hingeJoint == node_data.webotsType = "HingeJoint"
         IN  [x |-> Emit(x, << << "DEF", " ", def_id, " " >>,
                               << node_data.webotsType, " ", "{", "\n" >> >>
                            \o Opt(hingeJoint, hingeJoint_lines(node_data))
                            \o trs_lines
                            \o Opt(exportPhysics(node_data), physics_lines)
                            \o Opt(exportBoundingObject(node_data), boundingObject_lines)
                            \o << children_line >>),
              skipUselessTransform |-> FALSE,
              supplementaryCurvyBracket |-> hingeJoint]
    ELSE IF UselessTransform(matrix)
    THEN [x |-> x, skipUselessTransform |-> TRUE, supplementaryCurvyBracket |-> FALSE]
    ELSE [x |-> Emit(x, << << "DEF", " ", def_id, " " >>,
                          << "Transform", " ", "{", "\n" >> >>
                       \o trs_lines
                       \o << children_line >>),
          skipUselessTransform |-> FALSE,
          supplementaryCurvyBracket |-> FALSE]

\* a write_transform_end that never writes the joint's closing bracket
write_transform_end_lines_short(supplementaryCurvyBracket) ==
    << << "]", "\n" >>, << "}", "\n" >> >>

write_transform_end_lines(supplementaryCurvyBracket) ==
    << << "]", "\n" >>, << "}", "\n" >> >>
    \o Opt(supplementaryCurvyBracket, << << "}", "\n" >> >>)

\* write_transform_end(supplementaryCurvyBracket)
write_transform_end(x, supplementaryCurvyBracket) ==
    Emit(x, write_transform_end_lines(supplementaryCurvyBracket))

(***************************************************************************)
(* Images and meshes of the host (bpy.data).  An image is its name; a      *)
(* material is None (present FALSE) or its texture slots, each holding     *)
(* the image of an IMAGE texture or None, and use_face_texture; a face     *)
(* is its material_index, its number of vertices, use_smooth, and the      *)
(* image of its entry in tessface_uv_textures.active.data.                 *)
(***************************************************************************)
images ==
    << [name |-> << "w", "o", "o", "d" >>],
       [name |-> << "b", "r", "i", "c", "k" >>] >>

NoMaterial == [present |-> FALSE, texture_slots |-> << >>, use_face_texture |-> TRUE]

\* mesh_materials
mesh_materials(mesh) == IF mesh.materials = << >> THEN << NoMaterial >> ELSE mesh.materials

\* the image the loop over material.texture_slots breaks on, or None
RECURSIVE FirstImage(_)
FirstImage(slots) ==
    IF slots = << >> THEN None
    ELSE IF Head(slots) # None THEN Head(slots)
    ELSE FirstImage(Tail(slots))

\* mesh_material_images, indexed from 1
mesh_material_images(mesh) ==
    [i \in 1..Len(mesh_materials(mesh)) |->
        IF mesh_materials(mesh)[i].present
        THEN FirstImage(mesh_materials(mesh)[i].texture_slots) ELSE None]

\* mesh_materials_use_face_texture, indexed from 1
mesh_materials_use_face_texture(mesh) ==
    [i \in 1..Len(mesh_materials(mesh)) |-> mesh_materials(mesh)[i].use_face_texture]

Range(f) == {f[i] : i \in DOMAIN f}

\* mesh_faces_image: the image each face resolves to
mesh_faces_image(mesh) ==
    IF mesh.is_uv /\ TRUE \in Range(mesh_materials_use_face_texture(mesh))
    THEN [i \in 1..Len(mesh.tessfaces) |->
            IF mesh_materials_use_face_texture(mesh)[mesh.tessfaces[i].material_index + 1]
            THEN mesh.tessfaces[i].uv_image
            ELSE mesh_material_images(mesh)[mesh.tessfaces[i].material_index + 1]]
    ELSE IF Cardinality(Range(mesh_material_images(mesh)) \cup {None}) > 1
    THEN [i \in 1..Len(mesh.tessfaces) |->
            mesh_material_images(mesh)[mesh.tessfaces[i].material_index + 1]]
    ELSE [i \in 1..Len(mesh.tessfaces) |-> None]

\* the keys of face_groups
face_group_keys(mesh) ==
    {<< material_index, image >> :
        material_index \in 0..(Len(mesh_materials(mesh)) - 1),
        image \in Range(mesh_faces_image(mesh))}

\* getattr(image, 'name', '')
ImageName(image) == IF image = None THEN << >> ELSE images[image].name

\* a sort key that ignores the image
sort_key_less_material_only(k1, k2) == k1[1] < k2[1]

\* the order of the key (m[0][0], getattr(m[0][1], 'name', ''))
sort_key_less(k1, k2) ==
    \/ k1[1] < k2[1]
    \/ k1[1] = k2[1] /\ StrLess(ImageName(k1[2]), ImageName(k2[2]))

\* keys in the order list.sort leaves them
RECURSIVE SortKeys(_)
SortKeys(keys) ==
    IF keys = {} THEN << >>
    ELSE LET first == CHOOSE k \in keys : \A other \in keys : ~sort_key_less(other, k)
         IN  << first >> \o SortKeys(keys \ {first})

\* the faces of one group, in face order
RECURSIVE FacesOf(_, _, _)
FacesOf(mesh, key, i) ==
    IF i > Len(mesh.tessfaces) THEN << >>
    ELSE (IF mesh.tessfaces[i].material_index = key[1] /\ mesh_faces_image(mesh)[i] = key[2]
          THEN << i >> ELSE << >>) \o FacesOf(mesh, key, i + 1)

\* face_groups_items after the sort
face_groups_items(mesh) ==
    LET keys == SortKeys(face_group_keys(mesh))
    IN  [k \in 1..Len(keys) |-> [key |-> keys[k], face_group |-> FacesOf(mesh, keys[k], 1)]]

\* the vertex indices of face i, formatted
FaceToken(i) == "fv" \o ToString(i)

RECURSIVE Flatten(_)
Flatten(seqs) == IF seqs = << >> THEN << >> ELSE Head(seqs) \o Flatten(Tail(seqs))

Repeat(line, n) == [k \in 1..n |-> line]

\* image.tag, with the tag never seen
ImageTagged_never(x, image) == FALSE

\* image.tag
ImageTagged(x, image) == image \in x.image_tag

\* write_image_texture(image)
write_image_texture(x, image) ==
    The({ IF ImageTagged(x1, image)
          THEN Emit(x1, << << "texture", " ", "USE", " ", image_id, "\n" >> >>)
          ELSE Emit([Emit([x1 EXCEPT !.image_tag = @ \cup {image}],
                          << << "texture", " " >>,
                             << "DEF", " ", image_id, " " >>,
                             << "ImageTexture", " ", "{", "\n" >> >>)
                       \* path_reference(filepath_full, ..., copy_set, image.library)
                       EXCEPT !.calls = Append(@, image),
                              !.copy_set = IF scene.path_mode = "COPY"
                                           THEN @ \cup {image} ELSE @],
                    << << "url", " ", "[", " ", "\"%s\"", " ", "]", "\n" >>,
                       << "}", "\n" >> >>) :
            image_id \in {Join(unique_name(image, IM_ \o images[image].name,
                                           x.cache_image))},
            x1 \in {[x EXCEPT !.cache_image =
                        unique_name_cache(image, IM_ \o images[image].name,
                                          x.cache_image)]} })

\* one pass of the loop over face_groups_items, for a group that has faces
write_shape(x, mesh, mesh_id_coords, item, is_coords_written) ==
    LET material == mesh_materials(mesh)[item.key[1] + 1]
        image == item.key[2]
        face_group == item.face_group
        is_smooth == \E k \in 1..Len(face_group) : mesh.tessfaces[face_group[k]].use_smooth
        shape_begun ==
            {IF image # None THEN write_image_texture(x1, image) ELSE x1 :
                x1 \in {Emit(x, << << "Shape", " ", "{", "\n" >>,
                                   << "appearance", " ", "PBRAppearance", " ", "{", "\n" >> >>)}}
    IN  Emit(The(shape_begun),
             Opt(material.present,
                 << << "baseColor", " ", "%.3f", " ", "%.3f", " ", "%.3f", "\n" >>,
                    << "emissiveColor", " ", "%.3f", " ", "%.3f", " ", "%.3f", "\n" >>,
                    << "metalness", " ", "0", "\n" >>,
                    << "roughness", " ", "0.5", "\n" >> >>)
             \o << << "}", "\n" >>,
                   << "geometry", " ", "IndexedFaceSet", " ", "{", "\n" >> >>
             \o Opt(is_smooth, << << "creaseAngle", " ", "%.4f", "\n" >> >>)
             \o Opt(mesh.is_uv,
                    << << "texCoordIndex", " ", "[", "\n" >> >>
                    \o [k \in 1..Len(face_group) |->
                          IF mesh.tessfaces[face_group[k]].vertices = 4
                          THEN << "%d", " ", "%d", " ", "%d", " ", "%d", " ", "-1", " " >>
                          ELSE << "%d", " ", "%d", " ", "%d", " ", "-1", " " >>]
                    \o << << "\n" >>, << "]", "\n" >> >>)
             \o << << "coordIndex", " ", "[", "\n" >> >>
             \o [k \in 1..Len(face_group) |-> << FaceToken(face_group[k]), " ", "-1", " " >>]
             \o << << "\n" >>, << "]", "\n" >> >>
             \o (IF is_coords_written
                 THEN << << "coord", " ", "USE", " ", mesh_id_coords, "\n" >> >>
                 ELSE << << "coord", " " >>,
                         << "DEF", " ", mesh_id_coords, " " >>,
                         << "Coordinate", " ", "{", "\n" >>,
                         << "point", " ", "[", "\n" >> >>
                      \o Repeat(<< "%.6f", " ", "%.6f", " ", "%.6f", " " >>, mesh.vertices)
                      \o << << "\n" >>, << "]", "\n" >>, << "}", "\n" >> >>)
             \o Opt(mesh.is_uv,
                    << << "texCoord", " ", "TextureCoordinate", " ", "{", "\n" >>,
                       << "point", " ", "[", "\n" >> >>
                    \o Flatten([k \in 1..Len(face_group) |->
                                  Repeat(<< "%.4f", " ", "%.4f", " " >>,
                                         mesh.tessfaces[face_group[k]].vertices)])
                    \o << << "\n" >>, << "]", "\n" >>, << "}", "\n" >> >>)
             \o << << "}", "\n" >>, << "}", "\n" >> >>)

\* the loop over face_groups_items
RECURSIVE write_shapes(_, _, _, _, _)
write_shapes(x, mesh, mesh_id_coords, items, is_coords_written) ==
    IF items = << >> THEN x
    ELSE IF Head(items).face_group = << >>
    THEN write_shapes(x, mesh, mesh_id_coords, Tail(items), is_coords_written)
    ELSE The({ write_shapes(written, mesh, mesh_id_coords, Tail(items), TRUE) :
                 written \in {write_shape(x, mesh, mesh_id_coords, Head(items),
                                          is_coords_written)} })

\* mesh.tag, with the tag never seen
MeshTagged_never(x, me) == FALSE

\* mesh.tag
MeshTagged(x, me) == me \in x.mesh_tag

\* write_indexed_face_set(obj, mesh, matrix, world); me is the mesh's identity
write_indexed_face_set(x, obj, me, matrix) ==
    LET mesh == meshes[me]
        obj_id == Join(unique_name(obj, OB_ \o scene.name[obj], x.cache_object))
        mesh_id == Join(unique_name(me, ME_ \o mesh.name, x.cache_mesh))
        mesh_id_group == GROUP_ \o mesh_id
        mesh_id_coords == COORDS_ \o mesh_id
        named == [x EXCEPT !.cache_object =
                               unique_name_cache(obj, OB_ \o scene.name[obj], x.cache_object),
                           !.cache_mesh =
                               unique_name_cache(me, ME_ \o mesh.name, x.cache_mesh)]
    IN  IF mesh.tessfaces = << >> THEN named
        ELSE The({ The({ IF ~begun.skipUselessTransform
                         THEN write_transform_end(x2, begun.supplementaryCurvyBracket)
                         ELSE x2 :
                           x2 \in { IF MeshTagged(begun.x, me)
                                    THEN Emit(begun.x,
                                              << << "USE", " ", mesh_id_group, "\n" >> >>)
                                    ELSE write_shapes([begun.x EXCEPT !.mesh_tag = @ \cup {me}],
                                                      mesh, mesh_id_coords,
                                                      face_groups_items(mesh), FALSE) } }) :
                     begun \in {write_transform_begin(named, matrix,
                                                      obj_id \o _IFS \o _TRANSFORM)} })

(***************************************************************************)
(* build_hierarchy.  parent maps each object to its parent, or None.  An   *)
(* entry of the result is [obj, children], children a sequence of entries. *)
(***************************************************************************)
SeqToSet(q) == {q[i] : i \in 1..Len(q)}

\* a test_parent that does not walk past an object left out
test_parent_no_walk(parent, objects_set, p) == p

\* test_parent(parent)
RECURSIVE test_parent(_, _, _)
test_parent(parent, objects_set, p) ==
    IF p # None /\ p \notin objects_set
    THEN test_parent(parent, objects_set, parent[p])
    ELSE p

RECURSIVE SelectObjects(_, _, _, _)
SelectObjects(parent, objects, all, p) ==
    IF objects = << >> THEN << >>
    ELSE (IF test_parent(parent, SeqToSet(all), parent[Head(objects)]) = p
          THEN << Head(objects) >> ELSE << >>)
         \o SelectObjects(parent, Tail(objects), all, p)

\* the objects of par_lookup.get(p, []), in the order they were appended
par_lookup(parent, objects, p) == SelectObjects(parent, objects, objects, p)

\* par_lookup.get(p, []) once every subchildren list has been filled
RECURSIVE hierarchy_under(_, _, _)
hierarchy_under(parent, objects, p) ==
    LET children == par_lookup(parent, objects, p)
    IN  [k \in 1..Len(children) |->
            [obj |-> children[k], children |-> hierarchy_under(parent, objects, children[k])]]

\* build_hierarchy(objects)
build_hierarchy(parent, objects) == hierarchy_under(parent, objects, None)

(***************************************************************************)
(* save and export.                                                        *)
(***************************************************************************)
EmptyTable == [k \in {} |-> None]

Objects == 1..MaxObjects

\* the closure state of export, from the variables
Closure ==
    [file |-> file, indentation |-> indentation, cr |-> isLastCharacterACariageReturn,
     cache_object |-> uuid_cache_object, cache_mesh |-> uuid_cache_mesh,
     cache_image |-> uuid_cache_image, mesh_tag |-> mesh_tag, image_tag |-> image_tag,
     copy_set |-> copy_set, calls |-> path_reference_calls]

SetClosure(closed) ==
    \E x \in {closed} :
        /\ file' = x.file
        /\ indentation' = x.indentation
        /\ isLastCharacterACariageReturn' = x.cr
        /\ uuid_cache_object' = x.cache_object
        /\ uuid_cache_mesh' = x.cache_mesh
        /\ uuid_cache_image' = x.cache_image
        /\ mesh_tag' = x.mesh_tag
        /\ image_tag' = x.image_tag
        /\ copy_set' = x.copy_set
        /\ path_reference_calls' = x.calls

inputs == << scene, meshes, user_data_file >>
pure == << slug_s, slug_ret, hier_parent, hier_objects, hier_ret >>
closure == << file, indentation, isLastCharacterACariageReturn, uuid_cache_object,
              uuid_cache_mesh, uuid_cache_image, mesh_tag, image_tag, copy_set,
              path_reference_calls >>

\* save, up to its call of export: the output file is opened, the table loaded
Save ==
    /\ pc = "save"
    /\ IF user_data_file.given /\ user_data_file.isfile
       THEN IF user_data_file.parses
            THEN user_data' = user_data_file.table /\ pc' = "export_main"
            ELSE user_data' = user_data /\ pc' = "raised"
       ELSE user_data' = EmptyTable /\ pc' = "export_main"
    /\ UNCHANGED << inputs, pure, closure, stack, file_closed, copied, result >>

\* the objects export_main keeps: visible and, with use_selection, selected
RECURSIVE Kept(_)
Kept(o) ==
    IF o > MaxObjects THEN << >>
    ELSE (IF o \in scene.kept THEN << o >> ELSE << >>) \o Kept(o + 1)

\* export_main, up to its loop: the tags are cleared, the header written, the
\* hierarchy built
ExportMain ==
    /\ pc = "export_main"
    /\ \E w \in {write_header([file |-> file, indentation |-> indentation,
                                cr |-> isLastCharacterACariageReturn])} :
          SetClosure([Closure EXCEPT !.mesh_tag = {}, !.image_tag = {}, !.file = w.file,
                                     !.indentation = w.indentation, !.cr = w.cr])
    /\ stack' = << [obj |-> None, todo |-> build_hierarchy(scene.parent, Kept(1)),
                    skipUselessTransform |-> TRUE,
                    supplementaryCurvyBracket |-> FALSE] >>
    /\ pc' = "walk"
    /\ UNCHANGED << inputs, pure, user_data, file_closed, copied, result >>

\* export_object(obj_main_parent, obj_main, obj_children), up to its loop over the
\* children: the transform is begun and the object's mesh written
ExportObject ==
    /\ pc = "walk"
    /\ stack # << >>
    /\ stack[Len(stack)].todo # << >>
    /\ LET top == stack[Len(stack)]
           obj_main == Head(top.todo).obj
           obj_main_id == Join(unique_name(obj_main, scene.name[obj_main], uuid_cache_object))
           named == [Closure EXCEPT !.cache_object =
                        unique_name_cache(obj_main, scene.name[obj_main], uuid_cache_object)]
       IN  \E begun \in {write_transform_begin(named, scene.matrix[obj_main],
                                               obj_main_id \o _TRANSFORM)} :
           /\ SetClosure(IF scene.data[obj_main] # None
                         THEN write_indexed_face_set(begun.x, obj_main, scene.data[obj_main],
                                                     IdentityMatrix)
                         ELSE begun.x)
           /\ stack' = SubSeq(stack, 1, Len(stack) - 1)
                       \o << [top EXCEPT !.todo = Tail(@)],
                             [obj |-> obj_main, todo |-> Head(top.todo).children,
                              skipUselessTransform |-> begun.skipUselessTransform,
                              supplementaryCurvyBracket |-> begun.supplementaryCurvyBracket] >>
    /\ UNCHANGED << inputs, pure, pc, user_data, file_closed, copied, result >>

\* export_object, after its loop over the children: the transform is ended
ExportObjectReturn ==
    /\ pc = "walk"
    /\ stack # << >>
    /\ stack[Len(stack)].todo = << >>
    /\ stack[Len(stack)].obj # None
    /\ LET top == stack[Len(stack)]
       IN  SetClosure(IF ~top.skipUselessTransform
                      THEN write_transform_end(Closure, top.supplementaryCurvyBracket)
                      ELSE Closure)
    /\ stack' = SubSeq(stack, 1, Len(stack) - 1)
    /\ UNCHANGED << inputs, pure, pc, user_data, file_closed, copied, result >>

\* export, after export_main: file.close()
CloseFile ==
    /\ pc = "walk"
    /\ stack # << >>
    /\ stack[Len(stack)].todo = << >>
    /\ stack[Len(stack)].obj = None
    /\ stack' = << >>
    /\ file_closed' = TRUE
    /\ pc' = "copy"
    /\ UNCHANGED << inputs, pure, closure, user_data, copied, result >>

\* path_reference_copy(copy_set), then export and save return
CopyAndReturn ==
    /\ pc = "copy"
    /\ copied' = [started |-> TRUE, files |-> copy_set]
    /\ result' = "FINISHED"
    /\ pc' = "done"
    /\ UNCHANGED << inputs, pure, closure, user_data, stack, file_closed >>

Next == Save \/ ExportMain \/ ExportObject \/ ExportObjectReturn \/ CloseFile \/ CopyAndReturn

(***************************************************************************)
(* The scenes export is run on.                                            *)
(***************************************************************************)
Tiny == Unit \div (2 * 10 ^ sig_fig)        \* half of 10 ** -sig_fig

MatrixChoices ==
    { IdentityMatrix,
      Matrix(Tiny, Tiny, One + Tiny),       \* every component a little above
      Matrix(-Tiny, -Tiny, One),            \* location and angle a little below 0
      Matrix(Zero, Zero, One - Tiny),       \* scale a little below 1
      Matrix(One, Zero, One) }              \* moved by one metre

MovedMatrix == Matrix(One, Zero, One)

Cube == << "C", "u", "b", "e" >>

\* three meshes: two materials with an image each; face textures on a mesh whose
\* name slugs like the first one's; a mesh with no faces
MeshLib ==
    << [name |-> Cube, is_uv |-> FALSE, vertices |-> 4,
        materials |-> << [present |-> TRUE, texture_slots |-> << 1 >>,
                          use_face_texture |-> FALSE],
                         [present |-> TRUE, texture_slots |-> << None, 2 >>,
                          use_face_texture |-> FALSE] >>,
        tessfaces |-> << [material_index |-> 0, vertices |-> 4, use_smooth |-> FALSE,
                          uv_image |-> None],
                         [material_index |-> 1, vertices |-> 3, use_smooth |-> TRUE,
                          uv_image |-> None],
                         [material_index |-> 0, vertices |-> 3, use_smooth |-> FALSE,
                          uv_image |-> None] >>],
       [name |-> Cube \o << ".", "0", "0", "1" >>, is_uv |-> TRUE, vertices |-> 3,
        materials |-> << >>,
        tessfaces |-> << [material_index |-> 0, vertices |-> 3, use_smooth |-> FALSE,
                          uv_image |-> 1],
                         [material_index |-> 0, vertices |-> 4, use_smooth |-> FALSE,
                          uv_image |-> None] >>],
       [name |-> << "E", "m", "p", "t", "y" >>, is_uv |-> FALSE, vertices |-> 0,
        materials |-> << >>, tessfaces |-> << >>] >>

Letter(o) == << ASCII[Ord("a") + o - 1] >>

\* parent links in which every parent comes before its children in scene.objects
OrderedForests == {p \in [Objects -> {None} \cup Objects] : \A o \in Objects : p[o] < o}

Hinge(axis) == [webotsType |-> "HingeJoint", hingeJointParameters |-> [axis |-> axis]]

Tables ==
    { ("A_TRANSFORM" :> [webotsType |-> "Robot"]),
      ("A_TRANSFORM" :> [webotsType |-> "Solid"])
        @@ ("B_TRANSFORM" :> [webotsType |-> "HingeJoint",
                              hingeJointParameters |-> [axis |-> "0 0 1"],
                              motorName |-> "motor", positionSensorName |-> "sensor"]),
      ("A_TRANSFORM" :> Hinge("0 1 0"))
        @@ ("B_IFS_TRANSFORM" :> [webotsType |-> "Solid"]),
      ("A_TRANSFORM" :> [webotsType |-> "Robot"])
        @@ ("A_IFS_TRANSFORM" :> [webotsType |-> "HingeJoint",
                                  hingeJointParameters |-> [axis |-> "1 0 0"],
                                  motorName |-> "motor"])
        @@ ("B_TRANSFORM" :> [webotsType |-> "Solid"]),
      ("B_TRANSFORM" :> [webotsType |-> "Robot"])
        @@ ("A_IFS_TRANSFORM" :> [webotsType |-> "HingeJoint",
                                  hingeJointParameters |-> [axis |-> "1 0 0"],
                                  positionSensorName |-> "sensor"]) }

NoFile == [given |-> FALSE, isfile |-> FALSE, parses |-> FALSE, table |-> EmptyTable]

\* user_data_path: '', the path of no file, of a file that is no JSON, of a table
UserDataFiles ==
    { NoFile,
      [given |-> TRUE, isfile |-> FALSE, parses |-> FALSE, table |-> EmptyTable],
      [given |-> TRUE, isfile |-> TRUE, parses |-> FALSE, table |-> EmptyTable] }
    \cup {[given |-> TRUE, isfile |-> TRUE, parses |-> TRUE, table |-> t] : t \in Tables}

\* scenes whose objects all use the first mesh: transforms and overrides vary
TransformScenes ==
    {[parent |-> p, kept |-> Objects, name |-> [o \in Objects |-> Letter(o)],
      matrix |-> m, data |-> [o \in Objects |-> 1], path_mode |-> "AUTO"] :
        p \in OrderedForests, m \in [Objects -> MatrixChoices]}

\* the surroundings of a run: tags left set or not, path_mode, object names, matrices
Surroundings ==
    { [tags |-> FALSE, path_mode |-> "AUTO", same_name |-> FALSE, matrix |-> IdentityMatrix],
      [tags |-> TRUE, path_mode |-> "COPY", same_name |-> TRUE, matrix |-> MovedMatrix] }

\* scenes with no override: the selection, the hierarchy and the mesh data vary
MeshScenes(e) ==
    {[parent |-> p, kept |-> k,
      name |-> [o \in Objects |-> IF e.same_name THEN Cube ELSE Letter(o)],
      matrix |-> [o \in Objects |-> e.matrix], data |-> d, path_mode |-> e.path_mode] :
        p \in OrderedForests, k \in SUBSET Objects,
        d \in [Objects -> {None} \cup (1..Len(MeshLib))]}

\* the variables of slugify and build_hierarchy, while export runs
PureIdle ==
    /\ slug_s = << >> /\ slug_ret = << >>
    /\ hier_parent = << >> /\ hier_objects = << >> /\ hier_ret = << >>

\* save has been called and export has written nothing yet
ExportStart ==
    /\ pc = "save"
    /\ user_data = EmptyTable
    /\ file = << >> /\ indentation = 0 /\ isLastCharacterACariageReturn = FALSE
    /\ uuid_cache_object = [k \in {} |-> << >>]
    /\ uuid_cache_mesh = [k \in {} |-> << >>]
    /\ uuid_cache_image = [k \in {} |-> << >>]
    /\ copy_set = {}
    /\ path_reference_calls = << >>
    /\ stack = << >>
    /\ file_closed = FALSE
    /\ copied = [started |-> FALSE, files |-> {}]
    /\ result = "none"

Init ==
    /\ \/ /\ scene \in TransformScenes
          /\ user_data_file \in UserDataFiles
          /\ mesh_tag = {} /\ image_tag = {}
       \/ \E e \in Surroundings :
            /\ scene \in MeshScenes(e)
            /\ user_data_file = NoFile
            /\ mesh_tag = (IF e.tags THEN 1..Len(MeshLib) ELSE {})
            /\ image_tag = (IF e.tags THEN 1..Len(images) ELSE {})
    /\ meshes = MeshLib
    /\ ExportStart
    /\ PureIdle

Spec == Init /\ [][Next]_vars

(***************************************************************************)
(* export on one object whose mesh is drawn from every mesh of at most     *)
(* MaxFaces faces, two materials and the two images.                       *)
(***************************************************************************)
SeqsUpTo(S, n) == UNION {[1..k -> S] : k \in 0..n}

MaterialChoices ==
    { NoMaterial,
      [present |-> TRUE, texture_slots |-> << >>, use_face_texture |-> TRUE],
      [present |-> TRUE, texture_slots |-> << 1 >>, use_face_texture |-> FALSE],
      [present |-> TRUE, texture_slots |-> << None, 2 >>, use_face_texture |-> TRUE],
      [present |-> TRUE, texture_slots |-> << 2 >>, use_face_texture |-> FALSE] }

FaceChoices ==
    {[material_index |-> m, uv_image |-> i, vertices |-> IF i = None THEN 3 ELSE 4,
      use_smooth |-> (m = 1)] : m \in 0..1, i \in {None} \cup (1..Len(images))}

DrawnMeshes ==
    {mesh \in [name : {Cube}, is_uv : BOOLEAN, vertices : {4},
               materials : SeqsUpTo(MaterialChoices, 2),
               tessfaces : SeqsUpTo(FaceChoices, MaxFaces) \ {<< >>}] :
        \A k \in 1..Len(mesh.tessfaces) :
            /\ mesh.tessfaces[k].material_index < Len(mesh_materials(mesh))
            /\ ~mesh.is_uv => mesh.tessfaces[k].uv_image = None}

InitMesh ==
    /\ scene = [parent |-> [o \in Objects |-> None], kept |-> {1},
                name |-> [o \in Objects |-> Letter(o)],
                matrix |-> [o \in Objects |-> MovedMatrix],
                data |-> [o \in Objects |-> 1], path_mode |-> "AUTO"]
    /\ meshes \in {<< mesh >> : mesh \in DrawnMeshes}
    /\ user_data_file = NoFile
    /\ mesh_tag = {} /\ image_tag = {}
    /\ ExportStart
    /\ PureIdle

SpecMesh == InitMesh /\ [][Next]_vars

(***************************************************************************)
(* slugify and build_hierarchy, each run alone on every bounded argument.  *)
(***************************************************************************)
\* the variables of save and export, while a function runs alone
ExportIdle ==
    /\ scene = << >> /\ meshes = << >> /\ user_data_file = NoFile
    /\ mesh_tag = {} /\ image_tag = {}
    /\ user_data = EmptyTable
    /\ file = << >> /\ indentation = 0 /\ isLastCharacterACariageReturn = FALSE
    /\ uuid_cache_object = [k \in {} |-> << >>]
    /\ uuid_cache_mesh = [k \in {} |-> << >>]
    /\ uuid_cache_image = [k \in {} |-> << >>]
    /\ copy_set = {}
    /\ path_reference_calls = << >>
    /\ stack = << >>
    /\ file_closed = FALSE
    /\ copied = [started |-> FALSE, files |-> {}]
    /\ result = "none"

export == << inputs, closure, user_data, stack, file_closed, copied, result >>

SlugAlphabet == {"a", "z", "B", "7", "_", ".", " "}

InitSlug ==
    /\ slug_s \in SeqsUpTo(SlugAlphabet, MaxLen)
    /\ slug_ret = << >>
    /\ hier_parent = << >> /\ hier_objects = << >> /\ hier_ret = << >>
    /\ pc = "slugify"
    /\ ExportIdle

Slugify ==
    /\ pc = "slugify"
    /\ slug_ret' = slugify(slug_s)
    /\ pc' = "slugified"
    /\ UNCHANGED << export, slug_s, hier_parent, hier_objects, hier_ret >>

SpecSlug == InitSlug /\ [][Slugify]_vars

HierObjects == 1..MaxHierObjects

\* following parent from o reaches None within n steps
RECURSIVE ReachesRoot(_, _, _)
ReachesRoot(parent, o, n) ==
    IF o = None THEN TRUE
    ELSE IF n = 0 THEN FALSE
    ELSE ReachesRoot(parent, parent[o], n - 1)

\* the parent links that form a forest
Forests ==
    {parent \in [HierObjects -> {None} \cup HierObjects] :
        \A o \in HierObjects : ReachesRoot(parent, o, MaxHierObjects)}

\* the lists of distinct objects
DistinctLists ==
    {q \in SeqsUpTo(HierObjects, MaxHierObjects) :
        \A i, j \in 1..Len(q) : i # j => q[i] # q[j]}

InitHier ==
    /\ hier_parent \in Forests
    /\ hier_objects \in DistinctLists
    /\ hier_ret = << >>
    /\ slug_s = << >> /\ slug_ret = << >>
    /\ pc = "build_hierarchy"
    /\ ExportIdle

BuildHierarchy ==
    /\ pc = "build_hierarchy"
    /\ hier_ret' = build_hierarchy(hier_parent, hier_objects)
    /\ pc' = "built"
    /\ UNCHANGED << export, slug_s, slug_ret, hier_parent, hier_objects >>

SpecHier == InitHier /\ [][BuildHierarchy]_vars

(***************************************************************************)
(* The exported file, read back.                                           *)
(***************************************************************************)
Fragments == 1..Len(file)

DefFragment(id) == << "DEF", " ", id, " " >>

\* the fragments that write DEF <id>
DefsOf(id) == {k \in Fragments : file[k].text = DefFragment(id)}

\* the ids fragment k refers to with USE
UsedIds(k) ==
    {file[k].text[p + 2] : p \in {q \in 1..Len(file[k].text) : file[k].text[q] = "USE"}}

\* the nodes export_object has begun that carry mesh me
Users(me) == {o \in DOMAIN uuid_cache_object : scene.data[o] = me}

MeshId(me) == Join(uuid_cache_mesh[me])

UseGroupOf(mesh_id) ==
    {k \in Fragments : file[k].text = << "USE", " ", GROUP_ \o mesh_id, "\n" >>}

UseCoordsOf(mesh_id) ==
    {k \in Fragments : file[k].text = << "coord", " ", "USE", " ", COORDS_ \o mesh_id, "\n" >>}

ShapeFragments == {k \in Fragments : file[k].text = << "Shape", " ", "{", "\n" >>}

CoordFragments ==
    {k \in Fragments : file[k].text # << >> /\ file[k].text[1] = "coord"}

\* the groups of mesh me that have a face
NonEmptyGroups(me) ==
    LET faces_image == mesh_faces_image(meshes[me])
    IN  {<< meshes[me].tessfaces[i].material_index, faces_image[i] >> :
            i \in 1..Len(meshes[me].tessfaces)}

\* the brackets written so far
Brackets(kinds) ==
    {<< k, p >> \in Fragments \X (1..8) :
        p <= Len(file[k].text) /\ file[k].text[p] \in kinds}

\* C1: every USE <id> written (USE GROUP_<mesh id>, coord USE COORDS_<mesh id>,
\* texture USE <image id>) comes after a DEF <id> with the same id, earlier in
\* the same file.
C1_UseAfterDef ==
    \A k \in Fragments : \A id \in UsedIds(k) :
        \E j \in 1..(k - 1) : file[j].text = DefFragment(id)

\* C2: the indentation depth fw keeps is never negative after any fragment, and
\* it is zero when the export finishes: as many opening brackets were written
\* as closing ones.
C2_IndentationBalanced ==
    /\ indentation >= 0
    /\ \A k \in Fragments : file[k].depth >= 0 /\ file[k].pad >= 0
    /\ file # << >> => indentation = file[Len(file)].depth
    /\ pc = "done" =>
          /\ indentation = 0
          /\ Cardinality(Brackets({"{", "["})) = Cardinality(Brackets({"}", "]"}))

\* an export has finished that wrote a joint, three levels deep or more
C2_Witness ==
    /\ pc = "done"
    /\ \E k \in Fragments : file[k].text = << "endPoint", " ", "Solid", " ", "{", "\n" >>
    /\ \E k \in Fragments : file[k].depth >= 3

\* C3: a mesh with face data that several nodes carry is written in full once
\* (its shape blocks, with DEF COORDS_<mesh id>), for the first of the nodes;
\* each later node writes one USE and no shape block.
C3_MeshWrittenOnce ==
    /\ \A me \in 1..Len(meshes) :
          (meshes[me].tessfaces # << >> /\ Users(me) # {}) =>
              /\ me \in DOMAIN uuid_cache_mesh
              /\ \E mesh_id \in {MeshId(me)} :
                 \E defs \in {DefsOf(COORDS_ \o mesh_id)}, uses \in {UseGroupOf(mesh_id)} :
                    /\ Cardinality(defs) = 1
                    /\ Cardinality(uses) = Cardinality(Users(me)) - 1
                    /\ \A u \in uses : \A d \in defs : d < u
                    /\ Cardinality(defs) + Cardinality(UseCoordsOf(mesh_id))
                          = Cardinality(NonEmptyGroups(me))
    /\ Cardinality(ShapeFragments) = Cardinality(CoordFragments)

\* an export has finished in which every node carries one mesh with faces
C3_Witness ==
    /\ pc = "done"
    /\ \E me \in 1..Len(meshes) :
          /\ meshes[me].tessfaces # << >>
          /\ Users(me) = Objects
          /\ Cardinality(NonEmptyGroups(me)) >= 2

\* the id a node's own transform is written under
TransformId(o) == Join(uuid_cache_object[o]) \o _TRANSFORM

\* a and b differ by less than 10 ** -sig_fig
Within(a, b) == a - b < Unit \div 10 ^ sig_fig /\ b - a < Unit \div 10 ^ sig_fig

WithinTolerance(matrix) ==
    /\ \A i \in 1..3 : Within(matrix.loc[i], Zero) /\ Within(matrix.sca[i], One)
    /\ Within(matrix.angle, Zero)

\* C5: a node with no override entry whose translation and angle are within
\* 1e-5 of 0 and whose scale is within 1e-5 of 1, on either side, gets no
\* wrapper: write_transform_begin returns the skipped flag and writes no
\* DEF for it.
C5_NearIdentityElided ==
    \A i \in 1..Len(stack) :
        (/\ stack[i].obj # None
         /\ TransformId(stack[i].obj) \notin DOMAIN user_data
         /\ WithinTolerance(scene.matrix[stack[i].obj]))
        => /\ stack[i].skipUselessTransform
           /\ DefsOf(TransformId(stack[i].obj)) = {}

\* the fragment after DEF <id> names the node type and opens the block
HeaderOf(k) == file[k + 1]

\* the fragments of the block opened after fragment k that lie before the
\* block's own children list
OwnFields(k) ==
    {j \in (k + 2)..Len(file) :
        \A c \in (k + 2)..j :
            ~(file[c].text = children_line /\ file[c].depth = HeaderOf(k).depth + 1)}

HasPhysics(k) == \E j \in OwnFields(k) : file[j].text = physics_lines[1]

HasBoundingObject(k) == \E j \in OwnFields(k) : file[j].text = boundingObject_lines[1]

\* the override entries that declare no joint
NonJointIds == {id \in DOMAIN user_data : user_data[id].webotsType # "HingeJoint"}

\* the nodes whose own transform or face-set transform has been written under id
WrittenUnder(id) ==
    {o \in DOMAIN uuid_cache_object :
        \/ TransformId(o) = id
        \/ /\ Join(uuid_cache_object[o]) \o _IFS \o _TRANSFORM = id
           /\ scene.data[o] # None
           /\ meshes[scene.data[o]].tessfaces # << >>}

\* C7 as stated: a node whose override entry declares a non-joint type (Robot
\* in particular) gets exactly one block DEF <id> <type> {, which holds a
\* physics sub-block and no boundingObject sub-block.
C7_PhysicsNoBoundingObject ==
    \A id \in NonJointIds :
        WrittenUnder(id) # {} =>
            /\ Cardinality(DefsOf(id)) = 1
            /\ \A k \in DefsOf(id) :
                  /\ HeaderOf(k).text = << user_data[id].webotsType, " ", "{", "\n" >>
                  /\ HasPhysics(k)
                  /\ ~HasBoundingObject(k)

\* C7, amended: one block DEF <id> <type> { is written for each node written
\* under the id of a non-joint override entry; the block always holds a
\* boundingObject sub-block, and holds a physics sub-block exactly when the
\* type is not Robot.
C7_BoundingObjectPhysicsUnlessRobot ==
    \A id \in NonJointIds :
        /\ Cardinality(DefsOf(id)) = Cardinality(WrittenUnder(id))
        /\ \A k \in DefsOf(id) :
              /\ HeaderOf(k).text = << user_data[id].webotsType, " ", "{", "\n" >>
              /\ HasBoundingObject(k)
              /\ HasPhysics(k) <=> user_data[id].webotsType # "Robot"

\* an export has finished that wrote a Robot with a node below it
C7_Witness ==
    /\ pc = "done"
    /\ \E id \in NonJointIds :
          /\ user_data[id].webotsType = "Robot"
          /\ \E k \in DefsOf(id) : HeaderOf(k).depth = 1 /\ \E j \in Fragments : file[j].depth >= 4

\* C8: with a user_data_path that is empty, names no file, or names a file that
\* does not parse, save does not fail: the export runs with an empty table and
\* save returns FINISHED.
C8_SaveNeverFails ==
    (~user_data_file.given \/ ~user_data_file.isfile \/ ~user_data_file.parses) =>
        /\ pc # "raised"
        /\ pc # "save" => user_data = EmptyTable
        /\ pc = "done" => result = "FINISHED"

\* the images whose ImageTexture has been written with DEF
DefinedImages ==
    {image \in DOMAIN uuid_cache_image : DefsOf(Join(uuid_cache_image[image])) # {}}

\* the images a fragment refers to, with DEF or with texture USE
ReferencedImages ==
    {image \in DOMAIN uuid_cache_image :
        \E id \in {Join(uuid_cache_image[image])} :
            \/ DefsOf(id) # {}
            \/ \E k \in Fragments : file[k].text = << "texture", " ", "USE", " ", id, "\n" >>}

\* path_reference has been called once for each image of S and for no other
CalledOnceEach(calls, S) ==
    /\ SeqToSet(calls) = S
    /\ \A i, j \in 1..Len(calls) : i # j => calls[i] # calls[j]

\* C9: path_reference is called once for each distinct image referenced, when
\* the image is defined and never when texture USE is written; the batch copy
\* starts only once the last fragment is written and the file closed, and no
\* fragment is written after it starts.
C9_ResolveOnceCopyLast ==
    /\ [](/\ CalledOnceEach(path_reference_calls, DefinedImages)
          /\ ReferencedImages = DefinedImages
          /\ scene.path_mode = "COPY" => copy_set = SeqToSet(path_reference_calls)
          /\ copied.started => (file_closed /\ copied.files = copy_set))
    /\ [][/\ (file_closed \/ copied.started) => file' = file
          /\ copied'.started => (file_closed /\ stack = << >>)]_vars

\* an export has finished that copied the files of two images, one of them
\* referred to with texture USE
C9_Witness ==
    /\ pc = "done"
    /\ copied.started
    /\ Cardinality(copied.files) = 2
    /\ \E k \in Fragments : \E id \in UsedIds(k) : file[k].text[1] = "texture"

DigitChars == {"0", "1", "2", "3", "4", "5", "6", "7", "8", "9"}

\* C4: slugify returns a non-empty string that matches ^[A-Z][A-Z0-9_]*$, holds
\* no __ and does not end with _; the empty input gives NONE.
C4_SlugWellFormed ==
    pc = "slugified" =>
        /\ slug_ret # << >>
        /\ slug_ret[1] \in UpperAZ
        /\ \A k \in 1..Len(slug_ret) : slug_ret[k] \in UpperAZ \cup DigitChars \cup {"_"}
        /\ \A k \in 1..(Len(slug_ret) - 1) : ~(slug_ret[k] = "_" /\ slug_ret[k + 1] = "_")
        /\ slug_ret[Len(slug_ret)] # "_"
        /\ slug_s = << >> => slug_ret = << "N", "O", "N", "E" >>

\* the objects of a list of entries and of the entries below them
RECURSIVE EntryObjects(_)
EntryObjects(entries) ==
    IF entries = << >> THEN << >>
    ELSE << Head(entries).obj >> \o EntryObjects(Head(entries).children)
         \o EntryObjects(Tail(entries))

\* the pairs << o, c >>: c is the object of an entry listed under o's entry
RECURSIVE EntryLinks(_, _)
EntryLinks(o, entries) ==
    IF entries = << >> THEN {}
    ELSE {<< o, Head(entries).obj >>}
         \cup EntryLinks(Head(entries).obj, Head(entries).children)
         \cup EntryLinks(o, Tail(entries))

\* the k-th ancestor of o, None once the root is passed
RECURSIVE Up(_, _)
Up(o, k) == IF k = 0 \/ o = None THEN o ELSE Up(hier_parent[o], k - 1)

\* the nearest proper ancestor of o that is a candidate, or None
NearestCandidate(o) ==
    LET hops == {k \in 1..MaxHierObjects : Up(o, k) \in SeqToSet(hier_objects)}
    IN  IF hops = {} THEN None
        ELSE Up(o, CHOOSE k \in hops : \A other \in hops : k <= other)

\* C10: build_hierarchy returns a forest in which each candidate appears once,
\* under the entry of its nearest proper ancestor that is a candidate, or as a
\* root entry when it has none; no other node appears.
C10_HierarchyOfCandidates ==
    pc = "built" =>
        /\ Len(EntryObjects(hier_ret)) = Len(hier_objects)
        /\ SeqToSet(EntryObjects(hier_ret)) = SeqToSet(hier_objects)
        /\ \A link \in EntryLinks(None, hier_ret) : link[1] = NearestCandidate(link[2])

\* a candidate whose parent is no candidate sits under its grandparent's entry
C10_Witness ==
    /\ pc = "built"
    /\ \E link \in EntryLinks(None, hier_ret) :
          /\ link[1] # None
          /\ hier_parent[link[2]] # link[1]
          /\ hier_parent[link[2]] \notin SeqToSet(hier_objects)

\* the fragments that write the vertex indices of face i into a coordIndex
FaceFragments(i) == {k \in Fragments : file[k].text = << FaceToken(i), " ", "-1", " " >>}

\* the shape block fragment k lies in, counted from 1; 0 before the first block
BlockOf(k) == Cardinality({b \in ShapeFragments : b <= k})

\* (material index, image name) ascending, the group with no image first
GroupBefore(m1, image1, m2, image2) ==
    \/ m1 < m2
    \/ /\ m1 = m2
       /\ \/ image1 = None /\ image2 # None
          \/ /\ image1 # None /\ image2 # None
             /\ StrLess(images[image1].name, images[image2].name)

\* C6: the shape blocks of a mesh written in full are one for each non-empty
\* group of faces with the same (material index, resolved image); each face is
\* in one block, and the blocks come in ascending (material index, image name)
\* order, the group with no image first.
C6_ShapePerFaceGroup ==
    (pc = "done" /\ Users(1) # {}) =>
        \E mesh \in {meshes[1]} : \E faces_image \in {mesh_faces_image(mesh)} :
        \E block \in {[i \in 1..Len(mesh.tessfaces) |->
                          {BlockOf(k) : k \in FaceFragments(i)}]} :
            /\ \A i \in DOMAIN block : Cardinality(FaceFragments(i)) = 1
            /\ UNION {block[i] : i \in DOMAIN block} = 1..Cardinality(ShapeFragments)
            /\ \A i, j \in DOMAIN block :
                  /\ block[i] = block[j] <=>
                        /\ mesh.tessfaces[i].material_index = mesh.tessfaces[j].material_index
                        /\ faces_image[i] = faces_image[j]
                  /\ (\E bi \in block[i], bj \in block[j] : bi < bj) <=>
                        GroupBefore(mesh.tessfaces[i].material_index, faces_image[i],
                                    mesh.tessfaces[j].material_index, faces_image[j])

\* a mesh has been written as MaxFaces blocks or more, two of them of one
\* material, the block of the second image before the block of the first
C6_Witness ==
    /\ pc = "done"
    /\ Cardinality(ShapeFragments) >= MaxFaces
    /\ \E i, j \in 1..Len(meshes[1].tessfaces) :
          /\ meshes[1].tessfaces[i].material_index = meshes[1].tessfaces[j].material_index
          /\ mesh_faces_image(meshes[1])[i] = 1
          /\ mesh_faces_image(meshes[1])[j] = 2
          /\ \E bi \in {BlockOf(k) : k \in FaceFragments(i)} :
             \E bj \in {BlockOf(k) : k \in FaceFragments(j)} : bj < bi

(***************************************************************************)
(* export on scenes whose object names vary: one name is another one       *)
(* followed by _ifs.                                                       *)
(***************************************************************************)
NameChoices == { << "a" >>, << "a", "_", "i", "f", "s" >>, << "b" >> }

\* an override entry under the id A_IFS_TRANSFORM, or no table
NameUserDataFiles ==
    { NoFile,
      [given |-> TRUE, isfile |-> TRUE, parses |-> TRUE,
       table |-> ("A_IFS_TRANSFORM" :> [webotsType |-> "Solid"])] }

NameScenes ==
    {[parent |-> p, kept |-> Objects, name |-> n,
      matrix |-> [o \in Objects |-> m], data |-> d, path_mode |-> "AUTO"] :
        p \in OrderedForests, n \in [Objects -> NameChoices],
        m \in {IdentityMatrix, MovedMatrix}, d \in [Objects -> {None, 1}]}

InitNames ==
    /\ scene \in NameScenes
    /\ meshes = MeshLib
    /\ user_data_file \in NameUserDataFiles
    /\ mesh_tag = {} /\ image_tag = {}
    /\ ExportStart
    /\ PureIdle

SpecNames == InitNames /\ [][Next]_vars

\* the id a node's face-set transform is written under
IFSTransformId(o) == Join(uuid_cache_object[o]) \o _IFS \o _TRANSFORM

\* the nodes whose face set write_indexed_face_set has begun a transform for
FaceSetNodes ==
    {o \in DOMAIN uuid_cache_object :
        scene.data[o] # None /\ meshes[scene.data[o]].tessfaces # << >>}

\* C11: the id a node's face-set transform is written under
\* (<object id>_IFS_TRANSFORM) never equals the id any node's own transform is
\* written under (<object id>_TRANSFORM), so no two transform wrappers of the
\* file are defined with the same DEF id.
C11_TransformIdsDistinct ==
    /\ \A o \in FaceSetNodes : \A n \in DOMAIN uuid_cache_object :
          IFSTransformId(o) # TransformId(n)
    /\ \A id \in {TransformId(n) : n \in DOMAIN uuid_cache_object}
                 \cup {IFSTransformId(o) : o \in FaceSetNodes} :
          Cardinality(DefsOf(id)) <= 1

\* two wrappers have been written with the same DEF id, one for a node's own
\* transform and one for another node's face-set transform
C11_Collision ==
    \E o \in FaceSetNodes : \E n \in DOMAIN uuid_cache_object :
        /\ o # n
        /\ IFSTransformId(o) = TransformId(n)
        /\ Cardinality(DefsOf(TransformId(n))) = 2

====
